---- MODULE Spec2Model ----
(***************************************************************************)
(* Model of the send pipeline of the Email-Backend server: the emails,    *)
(* recipients, users and email_activities collections, POST /api/emails,  *)
(* sendEmail (services/email.ts) and the setInterval callback of          *)
(* setupScheduler (services/scheduler.ts).  An action is one completion   *)
(* of an awaited I/O call together with the synchronous code and the      *)
(* promise continuations that run after it, up to the next I/O call: a    *)
(* rejected promise that needs no I/O (updateEmailStatus throwing on an   *)
(* undefined id) is handled within the same action.  Times are whole      *)
(* seconds.                                                               *)
(***************************************************************************)
EXTENDS Integers, Sequences, FiniteSets, TLC

\* null / undefined of a string-valued field (address, token, error, user id)
Null == "null"
\* a falsy listId (null, undefined or 0)
NoList == 0
\* the id property of an object that has none: email.id is undefined
NoId == 0
\* Date-valued fields: a valid Date, null, or an Invalid Date
DateAt(t) == [kind |-> "date", t |-> t]
NullDate == [kind |-> "null", t |-> 0]
InvalidDate == [kind |-> "invalid", t |-> 0]

\* ---- bounds of the model ----
\* POST /api/emails requests handled
MaxPosts == 1
\* setInterval callbacks fired while requests are being served
MaxTicks == 1
\* setInterval callbacks fired when the scheduler runs alone
MaxSchedulerTicks == 3
\* GET /api/gmail/callback requests
MaxCallbacks == 2
\* requests to the recipient, list and delete routes
MaxCrud == 2
\* documents already in the emails collection when the process starts
MaxSeed == 6

\* ---- program constants ----
\* scheduler.ts:47  setInterval(..., 60 * 1000)
PeriodSec == 60
\* scheduler.ts:13  storage.getEmails(0, "scheduled"): the number 0, written
\* "0" here; user ids are the strings _id.toString(), none of which equals it
SchedulerUserId == "0"

\* session users: u1..u3 have a document in the users collection, "dev" is
\* the development test user of isAuthenticated, which has none
SessionUsers == {"u1", "u2", "u3", "dev"}

VARIABLES
  clock,         \* wall clock, seconds
  users,         \* users collection: _id string -> document
  callbacks,     \* GET /api/gmail/callback requests, in order of arrival
  recipients,    \* recipients collection, in natural order
  recipientLists, \* recipient_lists collection, in natural order
  replies,       \* responses of the recipient, list and delete routes, in order
  emails,        \* emails collection, in natural order
  activities,    \* email_activities collection, in natural order
  oauth2Client,  \* credentials held by the module-level OAuth2 client
  inv,           \* sendEmail invocations, by caller
  ticks,         \* scheduler callbacks, in firing order
  posts          \* POST /api/emails requests handled so far

vars == <<clock, users, callbacks, recipients, recipientLists, replies, emails, activities,
          oauth2Client, inv, ticks, posts>>

\* ------------------------------------------------------------------------
\* Persistence adapter
\* ------------------------------------------------------------------------

\* what getUser resolves to when it finds nothing: undefined
NoUser ==
  [id |-> Null, gmailConnected |-> FALSE, gmailRefreshToken |-> Null,
   gmailEmail |-> Null]

\* Storage.getUser: an id that is not a 24-hex string, or matches no
\* document, gives undefined
getUser(id) ==
  IF id \in DOMAIN users THEN users[id] ELSE NoUser

\* Storage.getRecipients: query {userId, listId} when listId is truthy
getRecipients(userId, listId) ==
  SelectSeq(recipients, LAMBDA r:
     /\ r.userId = userId
     /\ (listId # NoList => r.listId = listId))

\* Storage.getEmails with the query {userId} whatever the status asked for
getEmails_AnyStatus(userId, status) ==
  SelectSeq(emails, LAMBDA d: d.userId = userId)

\* Storage.getEmails: query {userId, status} when status is truthy
getEmails(userId, status) ==
  SelectSeq(emails, LAMBDA d:
     /\ d.userId = userId
     /\ (status # Null => d.status = status))

\* a document as find() returns it: it carries _id and no id property
AsFound(d) ==
  [id |-> NoId, oid |-> d.oid, userId |-> d.userId, to |-> d.to,
   listId |-> d.listId, scheduledFor |-> d.scheduledFor]

\* Storage.createEmail: the stored document, sentAt null, createdAt now
NewEmailDoc(oid, userId, to, listId, status, scheduledFor) ==
  [oid |-> oid, userId |-> userId, to |-> to, listId |-> listId,
   status |-> status, scheduledFor |-> scheduledFor, sentAt |-> NullDate,
   createdAt |-> clock]

\* Storage.createEmail: the returned object, id = insertedId
AsCreated(d) ==
  [id |-> d.oid, oid |-> d.oid, userId |-> d.userId, to |-> d.to,
   listId |-> d.listId, scheduledFor |-> d.scheduledFor]

\* updateEmailStatus with the sentAt argument dropped from the $set
updateEmailStatus_StatusOnly(id, status, sentAt) ==
  [k \in DOMAIN emails |->
     IF emails[k].oid = id
       THEN [emails[k] EXCEPT !.status = status]
       ELSE emails[k]]

\* Storage.updateEmailStatus, the write: $set {status, sentAt} when a sentAt
\* is passed, else {status}, on the document whose _id is id
updateEmailStatus(id, status, sentAt) ==
  [k \in DOMAIN emails |->
     IF emails[k].oid = id
       THEN [emails[k] EXCEPT !.status = status,
                              !.sentAt = IF sentAt # NullDate THEN sentAt ELSE @]
       ELSE emails[k]]

\* Storage.updateEmailStatus throws at id.toString() when id is undefined
updateEmailStatusThrows(id) == id = NoId

\* Storage.createEmailActivity
NewActivity(emailId, to) ==
  [emailId |-> emailId, type |-> "sent", recipientEmail |-> to]

\* ------------------------------------------------------------------------
\* sendEmail
\* ------------------------------------------------------------------------

\* names of the invocations: the one made by the p-th request, and the one
\* made by the t-th scheduler callback for its k-th due email
RequestInv(p) == <<"request", p, 0>>
TickInv(t, k) == <<"tick", t, k>>

\* a fresh invocation, suspended at  await storage.getUser(...)
NewInvocation(email, caller) ==
  [email |-> email, caller |-> caller, pc |-> "getUser", start |-> clock,
   token |-> Null, userId |-> Null, recipientEmails |-> <<>>, i |-> 0,
   cred |-> Null, subs |-> <<>>, results |-> <<>>, sentAtArg |-> NullDate,
   error |-> Null]

\* the aggregate with every entry of the result list counted as sent
Aggregate_AllCountedSent(v) ==
  [success |-> \A k \in DOMAIN v.results : v.results[k].success,
   total |-> Len(v.recipientEmails),
   sent |-> Len(v.results),
   failed |-> Len(SelectSeq(v.results, LAMBDA r: ~r.success)),
   results |-> v.results]

\* the value sendEmail returns, meaningful once pc = "returned"
Aggregate(v) ==
  [success |-> \A k \in DOMAIN v.results : v.results[k].success,
   total |-> Len(v.recipientEmails),
   sent |-> Len(SelectSeq(v.results, LAMBDA r: r.success)),
   failed |-> Len(SelectSeq(v.results, LAMBDA r: ~r.success)),
   results |-> v.results]

\* an error thrown inside the outer try: the catch block calls
\* updateEmailStatus(email.id, "failed") and awaits it; when that call throws
\* at once, sendEmail rejects with its TypeError
Throw(v, msg) ==
  IF updateEmailStatusThrows(v.email.id)
    THEN [v EXCEPT !.pc = "threw", !.error = "TypeError"]
    ELSE [v EXCEPT !.pc = "catch", !.error = msg]

\* the loop's exit calling updateEmailStatus(email.id, "sent") with no date
LoopNext_NoSentAt(v) ==
  IF v.i < Len(v.recipientEmails)
    THEN [v EXCEPT !.pc = "send"]
  ELSE IF updateEmailStatusThrows(v.email.id)
    THEN Throw(v, "TypeError")
  ELSE [v EXCEPT !.pc = "update"]

\* top of the for loop: the next recipient's sendGmailEmail call, or after
\* the last one the call  updateEmailStatus(email.id, "sent", new Date())
LoopNext(v) ==
  IF v.i < Len(v.recipientEmails)
    THEN [v EXCEPT !.pc = "send"]
  ELSE IF updateEmailStatusThrows(v.email.id)
    THEN Throw(v, "TypeError")
  ELSE [v EXCEPT !.pc = "update", !.sentAtArg = DateAt(clock)]

\* sendGmailEmail without its setCredentials call: the client keeps what it
\* holds
CredentialsAfter_NoSet(v) == oauth2Client

\* sendGmailEmail starts with oauth2Client.setCredentials({refresh_token})
CredentialsAfter(v) ==
  IF v.pc = "send" THEN v.token ELSE oauth2Client

\* an invocation that has just called sendGmailEmail: setCredentials and the
\* call of gmail.users.messages.send with auth: oauth2Client are one
\* synchronous stretch, and the request is made with what the client holds
\* at that call
Called(v) ==
  IF v.pc = "send" THEN [v EXCEPT !.cred = CredentialsAfter(v)] ELSE v

Settled(v) == v.pc \in {"returned", "threw"}

\* the loop without its inner try/catch: a rejected sendEmail ends the
\* callback in the outer catch
TickAfterSend_StopOnError(tk, t, invs) ==
  IF tk.k >= 1 /\ invs[TickInv(t, tk.k)].pc = "threw"
    THEN [tick |-> [tk EXCEPT !.pc = "done"], inv |-> invs]
  ELSE IF tk.k < Len(tk.due)
    THEN [tick |-> [tk EXCEPT !.k = @ + 1],
          inv |-> invs @@ (TickInv(t, tk.k + 1) :>
                             NewInvocation(tk.due[tk.k + 1],
                                           [kind |-> "tick", n |-> t]))]
    ELSE [tick |-> [tk EXCEPT !.pc = "done"], inv |-> invs]

\* the scheduler's loop body after  await sendEmail(email)  has settled: the
\* error, if any, is caught and logged, and the loop goes on to the next due
\* email or ends
TickAfterSend(tk, t, invs) ==
  IF tk.k < Len(tk.due)
    THEN [tick |-> [tk EXCEPT !.k = @ + 1],
          inv |-> invs @@ (TickInv(t, tk.k + 1) :>
                             NewInvocation(tk.due[tk.k + 1],
                                           [kind |-> "tick", n |-> t]))]
    ELSE [tick |-> [tk EXCEPT !.pc = "done"], inv |-> invs]

\* invocation n moves to w; when that settles it, its caller continues
Continue(n, w) ==
  LET inv1 == [inv EXCEPT ![n] = Called(w)] IN
  IF Settled(w) /\ w.caller.kind = "tick"
    THEN LET r == TickAfterSend(ticks[w.caller.n], w.caller.n, inv1) IN
           /\ inv' = r.inv
           /\ ticks' = [ticks EXCEPT ![w.caller.n] = r.tick]
    ELSE /\ inv' = inv1
         /\ UNCHANGED ticks

\* the recipient resolution with the list id tested before the address
AfterGetUser_ListFirst(v) ==
  LET user == getUser(v.email.userId) IN
  IF user = NoUser THEN Throw(v, "User not found")
  ELSE IF ~user.gmailConnected \/ user.gmailRefreshToken = Null
    THEN Throw(v, "Gmail account not connected")
  ELSE IF v.email.listId # NoList
    THEN [v EXCEPT !.token = user.gmailRefreshToken, !.userId = user.id,
                   !.pc = "getRecipients"]
  ELSE IF v.email.to # Null
    THEN LoopNext([v EXCEPT !.token = user.gmailRefreshToken, !.userId = user.id,
                            !.recipientEmails = <<v.email.to>>])
  ELSE Throw([v EXCEPT !.token = user.gmailRefreshToken, !.userId = user.id],
             "No recipients specified")

\* getUser has returned: the user checks and the recipient resolution
AfterGetUser(v) ==
  LET user == getUser(v.email.userId) IN
  IF user = NoUser THEN Throw(v, "User not found")
  ELSE IF ~user.gmailConnected \/ user.gmailRefreshToken = Null
    THEN Throw(v, "Gmail account not connected")
  ELSE IF v.email.to # Null
    THEN LoopNext([v EXCEPT !.token = user.gmailRefreshToken, !.userId = user.id,
                            !.recipientEmails = <<v.email.to>>])
  ELSE IF v.email.listId # NoList
    THEN [v EXCEPT !.token = user.gmailRefreshToken, !.userId = user.id,
                   !.pc = "getRecipients"]
  ELSE Throw([v EXCEPT !.token = user.gmailRefreshToken, !.userId = user.id],
             "No recipients specified")

GetUser(n) ==
  /\ n \in DOMAIN inv
  /\ inv[n].pc = "getUser"
  /\ LET w == AfterGetUser(inv[n]) IN
       /\ Continue(n, w)
       /\ oauth2Client' = CredentialsAfter(w)
  /\ UNCHANGED <<clock, users, callbacks, recipients, recipientLists, replies, emails, activities, posts>>

\* getRecipients has returned
AfterGetRecipients(v) ==
  LET rows == getRecipients(v.userId, v.email.listId)
      addrs == [k \in DOMAIN rows |-> rows[k].email] IN
  IF Len(addrs) = 0
    THEN Throw([v EXCEPT !.recipientEmails = addrs], "No recipients found")
    ELSE LoopNext([v EXCEPT !.recipientEmails = addrs])

GetRecipients(n) ==
  /\ n \in DOMAIN inv
  /\ inv[n].pc = "getRecipients"
  /\ LET w == AfterGetRecipients(inv[n]) IN
       /\ Continue(n, w)
       /\ oauth2Client' = CredentialsAfter(w)
  /\ UNCHANGED <<clock, users, callbacks, recipients, recipientLists, replies, emails, activities, posts>>

\* the loop with the per-recipient catch leaving the loop: a rejected
\* submission is recorded and the remaining recipients are skipped
AfterSubmit_AbortOnFailure(v, ok) ==
  LET to == v.recipientEmails[v.i + 1]
      s == [to |-> to, credential |-> v.cred, ok |-> ok]
      r == [email |-> to, success |-> ok] IN
  IF ok
    THEN [v EXCEPT !.subs = Append(@, s), !.results = Append(@, r),
                   !.pc = "activity"]
    ELSE LoopNext([v EXCEPT !.subs = Append(@, s), !.results = Append(@, r),
                            !.i = Len(v.recipientEmails)])

\* the Mail Transport call for recipient i+1 has settled, ok or rejected; it
\* was made with the credentials the shared client held when it was called
AfterSubmit(v, ok) ==
  LET to == v.recipientEmails[v.i + 1]
      s == [to |-> to, credential |-> v.cred, ok |-> ok]
      r == [email |-> to, success |-> ok] IN
  IF ok
    THEN [v EXCEPT !.subs = Append(@, s), !.results = Append(@, r),
                   !.pc = "activity"]
    ELSE LoopNext([v EXCEPT !.subs = Append(@, s), !.results = Append(@, r),
                            !.i = @ + 1])

Submit(n) ==
  /\ n \in DOMAIN inv
  /\ inv[n].pc = "send"
  /\ \E ok \in BOOLEAN :
       LET w == AfterSubmit(inv[n], ok) IN
         /\ Continue(n, w)
         /\ oauth2Client' = CredentialsAfter(w)
  /\ UNCHANGED <<clock, users, callbacks, recipients, recipientLists, replies, emails, activities, posts>>

\* createEmailActivity has returned
AfterActivity(v) == LoopNext([v EXCEPT !.i = @ + 1])

\* createEmailActivity replacing what the collection holds by the new row
Activity_Overwrite(n) ==
  /\ n \in DOMAIN inv
  /\ inv[n].pc = "activity"
  /\ LET v == inv[n]
         w == AfterActivity(v) IN
       /\ activities' = <<NewActivity(v.email.id, v.recipientEmails[v.i + 1])>>
       /\ Continue(n, w)
       /\ oauth2Client' = CredentialsAfter(w)
  /\ UNCHANGED <<clock, users, callbacks, recipients, recipientLists, replies, emails, posts>>

\* createEmailActivity has returned and its row is in the collection
Activity(n) ==
  /\ n \in DOMAIN inv
  /\ inv[n].pc = "activity"
  /\ LET v == inv[n]
         w == AfterActivity(v) IN
       /\ activities' = Append(activities,
                               NewActivity(v.email.id, v.recipientEmails[v.i + 1]))
       /\ Continue(n, w)
       /\ oauth2Client' = CredentialsAfter(w)
  /\ UNCHANGED <<clock, users, callbacks, recipients, recipientLists, replies, emails, posts>>

\* sendEmail throwing after updateEmailStatus(email.id, "sent") has returned
Update_ThenThrow(n) ==
  /\ n \in DOMAIN inv
  /\ inv[n].pc = "update"
  /\ emails' = updateEmailStatus(inv[n].email.id, "sent", inv[n].sentAtArg)
  /\ Continue(n, [inv[n] EXCEPT !.pc = "catch"])
  /\ UNCHANGED <<clock, users, callbacks, recipients, recipientLists, replies, activities, oauth2Client, posts>>

\* updateEmailStatus(email.id, "sent", new Date()) has returned; sendEmail
\* returns the aggregate
Update(n) ==
  /\ n \in DOMAIN inv
  /\ inv[n].pc = "update"
  /\ emails' = updateEmailStatus(inv[n].email.id, "sent", inv[n].sentAtArg)
  /\ Continue(n, [inv[n] EXCEPT !.pc = "returned"])
  /\ UNCHANGED <<clock, users, callbacks, recipients, recipientLists, replies, activities, oauth2Client, posts>>

\* the catch block rethrowing without the updateEmailStatus call
Catch_NoWrite(n) ==
  /\ n \in DOMAIN inv
  /\ inv[n].pc = "catch"
  /\ Continue(n, [inv[n] EXCEPT !.pc = "threw"])
  /\ UNCHANGED <<clock, users, callbacks, recipients, recipientLists, replies, emails, activities, oauth2Client, posts>>

\* the catch block: updateEmailStatus(email.id, "failed") has returned, then
\* throw error
Catch(n) ==
  /\ n \in DOMAIN inv
  /\ inv[n].pc = "catch"
  /\ emails' = updateEmailStatus(inv[n].email.id, "failed", NullDate)
  /\ Continue(n, [inv[n] EXCEPT !.pc = "threw"])
  /\ UNCHANGED <<clock, users, callbacks, recipients, recipientLists, replies, activities, oauth2Client, posts>>

\* the store call an invocation is waiting for is rejected (a persistence
\* failure): getRecipients or updateEmailStatus(email.id, "sent") inside the
\* try lead to the catch block; updateEmailStatus(email.id, "failed") inside
\* the catch block rejects sendEmail with the store's error, nothing written
StoreRejects(n) ==
  /\ n \in DOMAIN inv
  /\ inv[n].pc \in {"getRecipients", "update", "catch"}
  /\ Continue(n, IF inv[n].pc = "catch"
                   THEN [inv[n] EXCEPT !.pc = "threw", !.error = "StoreError"]
                   ELSE Throw(inv[n], "StoreError"))
  /\ UNCHANGED <<clock, users, callbacks, recipients, recipientLists, replies,
                 emails, activities, oauth2Client, posts>>

\* createEmailActivity rejected inside the per-recipient try, after the push
\* of the success entry: the catch pushes a failure entry for the same
\* recipient and the loop goes on
AfterActivityRejected(v) ==
  LET to == v.recipientEmails[v.i + 1]
      r == [email |-> to, success |-> FALSE] IN
  LoopNext([v EXCEPT !.results = Append(@, r), !.i = @ + 1])

\* the store rejects the createEmailActivity call an invocation is waiting
\* for; no row is written
ActivityRejects(n) ==
  /\ n \in DOMAIN inv
  /\ inv[n].pc = "activity"
  /\ LET w == AfterActivityRejected(inv[n]) IN
       /\ Continue(n, w)
       /\ oauth2Client' = CredentialsAfter(w)
  /\ UNCHANGED <<clock, users, callbacks, recipients, recipientLists, replies,
                 emails, activities, posts>>

\* ------------------------------------------------------------------------
\* POST /api/emails
\* ------------------------------------------------------------------------

\* req.user.id of a session user
SessionId(u) == u

\* the handler storing every email as "scheduled", sent at once or not
PostEmail_AlwaysScheduled(u, to, listId, scheduledFor) ==
  /\ posts < MaxPosts
  /\ posts' = posts + 1
  /\ LET doc == NewEmailDoc(Len(emails) + 1, SessionId(u), to, listId,
                            "scheduled", scheduledFor)
     IN /\ emails' = Append(emails, doc)
        /\ inv' = IF scheduledFor # NullDate
                    THEN inv
                    ELSE inv @@ (RequestInv(posts + 1) :>
                                   NewInvocation(AsCreated(doc),
                                      [kind |-> "request", n |-> posts + 1]))
  /\ UNCHANGED <<clock, users, callbacks, recipients, recipientLists, replies, activities, oauth2Client, ticks>>

\* the handler up to its first suspension inside sendEmail: createEmail,
\* then scheduleEmail (which returns the email untouched when it is
\* scheduled with a date) or the call of sendEmail
PostEmail(u, to, listId, scheduledFor) ==
  /\ posts < MaxPosts
  /\ posts' = posts + 1
  /\ LET status == IF scheduledFor # NullDate THEN "scheduled" ELSE "draft"
         doc == NewEmailDoc(Len(emails) + 1, SessionId(u), to, listId, status,
                            scheduledFor)
     IN /\ emails' = Append(emails, doc)
        /\ inv' = IF scheduledFor # NullDate
                    THEN inv
                    ELSE inv @@ (RequestInv(posts + 1) :>
                                   NewInvocation(AsCreated(doc),
                                      [kind |-> "request", n |-> posts + 1]))
  /\ UNCHANGED <<clock, users, callbacks, recipients, recipientLists, replies, activities, oauth2Client, ticks>>

\* the status code the request is answered with once sendEmail has settled
Response(v) == IF v.pc = "returned" THEN 200 ELSE 500

\* the request bodies and sessions of the model: the linked user u1 with each
\* shape of recipient fields, sent now, and with a scheduledFor one period in
\* the past; the users that are not linked or not found
Requests ==
  ({"u1"} \X {<<"x", 1>>, <<Null, 1>>, <<Null, 2>>, <<Null, NoList>>} \X {"now"})
  \cup ({"u1"} \X {<<"x", NoList>>} \X {"past"})
  \cup ({"u2"} \X {<<"x", NoList>>, <<Null, 1>>} \X {"now"})
  \cup ({"u3", "dev"} \X {<<"x", NoList>>} \X {"now"})

\* new Date(scheduledFor) of the request body, null when it has none
RequestDate(when) ==
  CASE when = "now" -> NullDate
    [] when = "past" -> DateAt(clock - PeriodSec)
    [] OTHER -> DateAt(clock + 1)

\* ------------------------------------------------------------------------
\* setupScheduler: the setInterval callback
\* ------------------------------------------------------------------------

\* new Date(scheduledFor).getTime() is NaN
IsNaNDate(d) == d.kind # "date"

\* the filter with  scheduledDate < now
IsDue_Strict(email, now) ==
  IF email.scheduledFor = NullDate THEN FALSE
  ELSE IF IsNaNDate(email.scheduledFor) THEN FALSE
  ELSE email.scheduledFor.t < now

\* the filter without the isNaN test, an unparseable value read as time 0
IsDue_NoNaNTest(email, now) ==
  IF email.scheduledFor = NullDate THEN FALSE
  ELSE email.scheduledFor.t <= now

\* the filter callback of emailsToSend
IsDue(email, now) ==
  IF email.scheduledFor = NullDate THEN FALSE
  ELSE IF IsNaNDate(email.scheduledFor) THEN FALSE
  ELSE email.scheduledFor.t <= now

\* the callback from its start to its first suspension inside sendEmail (or
\* to its end when nothing is due): the fetch, now, the filter and the call
\* of sendEmail for the first due email
TickFire(max) ==
  /\ Len(ticks) < max
  /\ clock = PeriodSec * (Len(ticks) + 1)
  /\ LET rows == getEmails(SchedulerUserId, "scheduled")
         scheduledEmails == [k \in DOMAIN rows |-> AsFound(rows[k])]
         now == clock
         emailsToSend == SelectSeq(scheduledEmails, LAMBDA e: IsDue(e, now))
         t == Len(ticks) + 1
         tk == [now |-> now, fetched |-> scheduledEmails, due |-> emailsToSend,
                k |-> 0, pc |-> "await"]
         r == TickAfterSend(tk, t, inv)
     IN /\ ticks' = Append(ticks, r.tick)
        /\ inv' = r.inv
  /\ UNCHANGED <<clock, users, callbacks, recipients, recipientLists, replies, emails, activities, oauth2Client, posts>>

\* ------------------------------------------------------------------------
\* Get and delete by id, and the recipient, list and delete routes
\* ------------------------------------------------------------------------

\* the id property of a stored document: insertOne stores the document under
\* _id, and no create method gives it an id property
IdField(d) == NoId

\* what findOne resolves to when no document matches: null
NoDoc == [oid |-> NoId, userId |-> Null]

\* the position of the first document of coll that the filter {id} matches,
\* 0 when there is none
FirstWithId(coll, id) ==
  LET S == {k \in DOMAIN coll : IdField(coll[k]) = id}
  IN IF S = {} THEN 0 ELSE CHOOSE k \in S : \A m \in S : k <= m

\* collection.findOne({ id })
FindOne(coll, id) ==
  IF FirstWithId(coll, id) = 0 THEN NoDoc ELSE coll[FirstWithId(coll, id)]

\* collection.deleteOne({ id }): the collection afterwards
DeleteOne(coll, id) ==
  LET k == FirstWithId(coll, id)
  IN IF k = 0 THEN coll ELSE SubSeq(coll, 1, k - 1) \o SubSeq(coll, k + 1, Len(coll))

\* result.deletedCount > 0
Deleted(coll, id) == FirstWithId(coll, id) # 0

\* insertedId: an ObjectId no document of the collection has
NewOid(coll) ==
  IF coll = <<>> THEN 1
  ELSE 1 + (CHOOSE m \in {coll[k].oid : k \in DOMAIN coll} :
              \A k \in DOMAIN coll : coll[k].oid <= m)

getRecipient(id) == FindOne(recipients, id)
deleteRecipient(id) == DeleteOne(recipients, id)
getRecipientList(id) == FindOne(recipientLists, id)
deleteRecipientList(id) == DeleteOne(recipientLists, id)
getEmail(id) == FindOne(emails, id)
deleteEmail(id) == DeleteOne(emails, id)

\* Storage.createRecipient: the stored document
NewRecipient(oid, userId, email, listId) ==
  [oid |-> oid, userId |-> userId, email |-> email, listId |-> listId,
   createdAt |-> clock]

\* Storage.createRecipientList: the stored document
NewRecipientList(oid, userId) ==
  [oid |-> oid, userId |-> userId, createdAt |-> clock]

\* the :id parameter of a delete request: the hex string of an ObjectId
\* (of a document of coll, or of none), a decimal number, or other text
IdParams(coll) ==
  {[kind |-> "hex", n |-> coll[k].oid] : k \in DOMAIN coll}
    \cup {[kind |-> "hex", n |-> NewOid(coll)],
          [kind |-> "num", n |-> 1],
          [kind |-> "text", n |-> 0]}

\* parseInt(req.params.id): NaN for text; for the hex string of an ObjectId
\* the number its leading decimal digits spell, which is not the ObjectId
parseInt(p) ==
  CASE p.kind = "text" -> [nan |-> TRUE, n |-> 0]
    [] p.kind = "num" -> [nan |-> FALSE, n |-> p.n]
    [] OTHER -> [nan |-> FALSE, n |-> 60 + p.n]

\* a response of one of these routes: the status code, the id property of
\* the entity a create route returns, and whether a document was removed
Reply(route, u, p, status, id, removed) ==
  [route |-> route, user |-> u, param |-> p, status |-> status, id |-> id,
   removed |-> removed]

NoParam == [kind |-> "none", n |-> 0]

\* POST /api/recipients
PostRecipient(u, email, listId) ==
  /\ Len(replies) < MaxCrud
  /\ LET doc == NewRecipient(NewOid(recipients), SessionId(u), email, listId)
     IN /\ recipients' = Append(recipients, doc)
        /\ replies' = Append(replies,
             Reply("POST /api/recipients", u, NoParam, 201, doc.oid, FALSE))
  /\ UNCHANGED <<clock, users, callbacks, recipientLists, emails, activities, oauth2Client,
                 inv, ticks, posts>>

\* POST /api/recipient-lists
PostRecipientList(u) ==
  /\ Len(replies) < MaxCrud
  /\ LET doc == NewRecipientList(NewOid(recipientLists), SessionId(u))
     IN /\ recipientLists' = Append(recipientLists, doc)
        /\ replies' = Append(replies,
             Reply("POST /api/recipient-lists", u, NoParam, 201, doc.oid, FALSE))
  /\ UNCHANGED <<clock, users, callbacks, recipients, emails, activities, oauth2Client,
                 inv, ticks, posts>>

\* the status a delete handler answers with, given what its get returned
DeleteStatus(id, found, u) ==
  IF id.nan THEN 400
  ELSE IF found = NoDoc THEN 404
  ELSE IF found.userId # SessionId(u) THEN 403
  ELSE 200

\* DELETE /api/recipients/:id
DeleteRecipient(u, p) ==
  /\ Len(replies) < MaxCrud
  /\ LET id == parseInt(p)
         status == DeleteStatus(id, getRecipient(id.n), u)
     IN /\ recipients' = IF status = 200 THEN deleteRecipient(id.n) ELSE recipients
        /\ replies' = Append(replies,
             Reply("DELETE /api/recipients/:id", u, p, status, id.n,
                   status = 200 /\ Deleted(recipients, id.n)))
  /\ UNCHANGED <<clock, users, callbacks, recipientLists, emails, activities, oauth2Client,
                 inv, ticks, posts>>

\* DELETE /api/recipient-lists/:id
DeleteRecipientList(u, p) ==
  /\ Len(replies) < MaxCrud
  /\ LET id == parseInt(p)
         status == DeleteStatus(id, getRecipientList(id.n), u)
     IN /\ recipientLists' = IF status = 200 THEN deleteRecipientList(id.n)
                             ELSE recipientLists
        /\ replies' = Append(replies,
             Reply("DELETE /api/recipient-lists/:id", u, p, status, id.n,
                   status = 200 /\ Deleted(recipientLists, id.n)))
  /\ UNCHANGED <<clock, users, callbacks, recipients, emails, activities, oauth2Client,
                 inv, ticks, posts>>

\* DELETE /api/emails/:id
DeleteEmail(u, p) ==
  /\ Len(replies) < MaxCrud
  /\ LET id == parseInt(p)
         status == DeleteStatus(id, getEmail(id.n), u)
     IN /\ emails' = IF status = 200 THEN deleteEmail(id.n) ELSE emails
        /\ replies' = Append(replies,
             Reply("DELETE /api/emails/:id", u, p, status, id.n,
                   status = 200 /\ Deleted(emails, id.n)))
  /\ UNCHANGED <<clock, users, callbacks, recipients, recipientLists, activities,
                 oauth2Client, inv, ticks, posts>>

\* ------------------------------------------------------------------------
\* GET /api/gmail/callback and handleGmailCallback
\* ------------------------------------------------------------------------

\* new ObjectId(user.id) succeeds: the id is a 24-hex string, which the id
\* of the development test user is not
ValidObjectId(u) == u # "dev"

\* a request that has been answered with a redirect
Redirected(c, to) == [c EXCEPT !.pc = "done", !.redirect = to]

\* the request as it arrives: the query carries an error, no code, or a
\* code; session is Null when the request is not authenticated
NewCallback(session, query) ==
  LET c == [user |-> session, pc |-> "getToken", refreshToken |-> Null,
            email |-> Null, redirect |-> Null]
  IN IF query = "error" THEN Redirected(c, "gmailError=access_denied")
     ELSE IF query = "nocode" THEN Redirected(c, "gmailError=invalid_code")
     ELSE IF session = Null THEN Redirected(c, "login?error=auth_required")
     ELSE c

\* the handler up to oauth2Client.getToken(code)
GmailCallback(session, query) ==
  /\ Len(callbacks) < MaxCallbacks
  /\ callbacks' = Append(callbacks, NewCallback(session, query))
  /\ UNCHANGED <<clock, users, recipients, recipientLists, replies, emails,
                 activities, oauth2Client, inv, ticks, posts>>

\* handleGmailCallback after getToken without the test of refresh_token
AfterGetToken_NoCheck(c, refreshToken) ==
  [c EXCEPT !.pc = "getProfile", !.refreshToken = refreshToken]

\* handleGmailCallback after getToken resolved: no refresh_token throws, and
\* the route's inner catch redirects
AfterGetToken(c, refreshToken) ==
  IF refreshToken = Null
    THEN Redirected(c, "gmailError=db_update_failed")
    ELSE [c EXCEPT !.pc = "getProfile", !.refreshToken = refreshToken]

\* getToken has settled: rejected, or resolved with tokens that carry the
\* refresh token given or none; the tokens become the credentials of the
\* module's client
GetToken(k, outcome) ==
  /\ k \in DOMAIN callbacks
  /\ callbacks[k].pc = "getToken"
  /\ IF outcome = "rejected"
       THEN /\ callbacks' = [callbacks EXCEPT
                               ![k] = Redirected(@, "gmailError=db_update_failed")]
            /\ UNCHANGED oauth2Client
       ELSE /\ callbacks' = [callbacks EXCEPT ![k] = AfterGetToken(@, outcome)]
            /\ oauth2Client' = outcome
  /\ UNCHANGED <<clock, users, recipients, recipientLists, replies, emails,
                 activities, inv, ticks, posts>>

\* handleGmailCallback after getProfile resolved, and the route up to
\* collection.updateOne
AfterGetProfile(c, emailAddress) ==
  IF emailAddress = Null
    THEN Redirected(c, "gmailError=db_update_failed")
  ELSE IF ~ValidObjectId(c.user)
    THEN Redirected([c EXCEPT !.email = emailAddress], "gmailError=invalid_user_id")
  ELSE [c EXCEPT !.pc = "updateOne", !.email = emailAddress]

\* gmail.users.getProfile has settled: rejected, or resolved with the
\* address given or none
GetProfile(k, outcome) ==
  /\ k \in DOMAIN callbacks
  /\ callbacks[k].pc = "getProfile"
  /\ callbacks' = [callbacks EXCEPT
       ![k] = IF outcome = "rejected"
                THEN Redirected(@, "gmailError=db_update_failed")
                ELSE AfterGetProfile(@, outcome)]
  /\ UNCHANGED <<clock, users, recipients, recipientLists, replies, emails,
                 activities, oauth2Client, inv, ticks, posts>>

\* the $set of the route on a user document
Linked(user, refreshToken, email) ==
  [user EXCEPT !.gmailConnected = TRUE, !.gmailRefreshToken = refreshToken,
               !.gmailEmail = email]

\* collection.updateOne has returned: nothing matched or nothing modified
\* redirects with user_not_found
UpdateUser(k) ==
  /\ k \in DOMAIN callbacks
  /\ callbacks[k].pc = "updateOne"
  /\ LET c == callbacks[k]
         matched == c.user \in DOMAIN users
         after == IF matched
                    THEN [users EXCEPT ![c.user] = Linked(@, c.refreshToken, c.email)]
                    ELSE users
     IN /\ users' = after
        /\ callbacks' = [callbacks EXCEPT
             ![k] = IF after = users
                      THEN Redirected(@, "gmailError=user_not_found")
                      ELSE Redirected(@, "gmailConnected=success")]
  /\ UNCHANGED <<clock, recipients, recipientLists, replies, emails, activities,
                 oauth2Client, inv, ticks, posts>>

\* ------------------------------------------------------------------------
\* Time
\* ------------------------------------------------------------------------

\* a timer period passes; the callback that is due at the current time has
\* fired before the next one is due
Advance(max) ==
  /\ clock < PeriodSec * max
  /\ Len(ticks) * PeriodSec >= clock
  /\ clock' = clock + PeriodSec
  /\ UNCHANGED <<users, callbacks, recipients, recipientLists, replies, emails, activities, oauth2Client, inv, ticks, posts>>

\* ------------------------------------------------------------------------
\* Initial state and specification
\* ------------------------------------------------------------------------

\* the users collection, which no route of this server creates documents in:
\* u1 is linked, u2 is not, u3 has the flag set and no refresh token
InitUsers ==
  [u \in {"u1", "u2", "u3"} |->
     [id |-> u,
      gmailConnected |-> u \in {"u1", "u3"},
      gmailRefreshToken |-> IF u = "u1" THEN "t1" ELSE Null,
      gmailEmail |-> IF u = "u1" THEN "m1" ELSE Null]]

\* the recipients collection: list 1 holds a, b for u1 and c for u2; list 2
\* holds d for u2 and nothing for u1
InitRecipients ==
  << [oid |-> 1, userId |-> "u1", email |-> "a", listId |-> 1, createdAt |-> 0 - 1],
     [oid |-> 2, userId |-> "u2", email |-> "c", listId |-> 1, createdAt |-> 0 - 1],
     [oid |-> 3, userId |-> "u1", email |-> "b", listId |-> 1, createdAt |-> 0 - 1],
     [oid |-> 4, userId |-> "u2", email |-> "d", listId |-> 2, createdAt |-> 0 - 1] >>

\* the recipient_lists collection: one list of u1 and one of u2
InitRecipientLists ==
  << [oid |-> 1, userId |-> "u1", createdAt |-> 0 - 1],
     [oid |-> 2, userId |-> "u2", createdAt |-> 0 - 1] >>

\* scheduledFor of the k-th document found in the collection at start:
\* unparseable, at the first timer period exactly, one second before, absent,
\* one second after, one second before again, and so on
SeedDate(k) ==
  CASE k % 6 = 1 -> InvalidDate
    [] k % 6 = 2 -> DateAt(PeriodSec)
    [] k % 6 = 3 -> DateAt(PeriodSec - 1)
    [] k % 6 = 4 -> NullDate
    [] k % 6 = 5 -> DateAt(PeriodSec + 1)
    [] OTHER -> DateAt(PeriodSec - 1)

\* the third of them names no recipient at all
SeedTo(k) == IF k % 6 = 3 THEN Null ELSE "x"

\* the sixth of them is an email whose sending failed before the process
\* started; the others are waiting for their time
SeedStatus(k) == IF k % 6 = 0 THEN "failed" ELSE "scheduled"

\* a document of the emails collection that this process did not write,
\* with the user id the scheduler's query {userId: 0, status: "scheduled"}
\* asks for; it has the fields createEmail writes
SeedDoc(k, scheduledFor) ==
  [oid |-> k, userId |-> SchedulerUserId, to |-> SeedTo(k), listId |-> NoList,
   status |-> SeedStatus(k), scheduledFor |-> scheduledFor, sentAt |-> NullDate,
   createdAt |-> 0 - 1]

Init ==
  /\ clock = 0
  /\ users = InitUsers
  /\ callbacks = <<>>
  /\ recipients = InitRecipients
  /\ recipientLists = InitRecipientLists
  /\ replies = <<>>
  /\ emails = [k \in 1..MaxSeed |-> SeedDoc(k, SeedDate(k))]
  /\ activities = <<>>
  /\ oauth2Client = Null
  /\ inv = <<>>
  /\ ticks = <<>>
  /\ posts = 0

Next ==
  \/ \E r \in Requests : PostEmail(r[1], r[2][1], r[2][2], RequestDate(r[3]))
  \/ \E n \in DOMAIN inv : GetUser(n)
  \/ \E n \in DOMAIN inv : GetRecipients(n)
  \/ \E n \in DOMAIN inv : Submit(n)
  \/ \E n \in DOMAIN inv : Activity(n)
  \/ \E n \in DOMAIN inv : Update(n)
  \/ \E n \in DOMAIN inv : Catch(n)
  \/ TickFire(MaxTicks)
  \/ Advance(MaxTicks)

Spec == Init /\ [][Next]_vars

\* the scheduler alone, with no request arriving, over more timer periods
SchedulerNext ==
  \/ \E n \in DOMAIN inv : GetUser(n)
  \/ TickFire(MaxSchedulerTicks)
  \/ Advance(MaxSchedulerTicks)

SchedulerSpec == Init /\ [][SchedulerNext]_vars

\* the requests and the scheduler with a store that may reject a call
FaultNext ==
  \/ Next
  \/ \E n \in DOMAIN inv : StoreRejects(n)

FaultSpec == Init /\ [][FaultNext]_vars

\* the requests alone, no timer period passing, with a store that may reject
\* any of the calls sendEmail awaits after getUser
RequestFaultNext ==
  \/ \E r \in Requests : PostEmail(r[1], r[2][1], r[2][2], RequestDate(r[3]))
  \/ \E n \in DOMAIN inv : GetUser(n)
  \/ \E n \in DOMAIN inv : GetRecipients(n)
  \/ \E n \in DOMAIN inv : Submit(n)
  \/ \E n \in DOMAIN inv : Activity(n)
  \/ \E n \in DOMAIN inv : Update(n)
  \/ \E n \in DOMAIN inv : Catch(n)
  \/ \E n \in DOMAIN inv : StoreRejects(n)
  \/ \E n \in DOMAIN inv : ActivityRejects(n)

RequestFaultSpec == Init /\ [][RequestFaultNext]_vars

\* the :id parameters that name an email a request of this run created
CreatedEmailParams ==
  {[kind |-> "hex", n |-> emails[j].oid] :
     j \in {k \in DOMAIN emails : emails[k].createdAt >= 0}}

\* the requests and their sends, with a store that may reject the activity
\* write, and DELETE /api/emails/:id requests of the owner for the emails
\* created
ActivityNext ==
  \/ \E r \in Requests : PostEmail(r[1], r[2][1], r[2][2], RequestDate(r[3]))
  \/ \E n \in DOMAIN inv : GetUser(n)
  \/ \E n \in DOMAIN inv : GetRecipients(n)
  \/ \E n \in DOMAIN inv : Submit(n)
  \/ \E n \in DOMAIN inv : Activity(n)
  \/ \E n \in DOMAIN inv : ActivityRejects(n)
  \/ \E n \in DOMAIN inv : Update(n)
  \/ \E n \in DOMAIN inv : Catch(n)
  \/ \E p \in CreatedEmailParams : DeleteEmail("u1", p)

ActivitySpec == Init /\ [][ActivityNext]_vars

\* the users that send requests to the recipient, list and delete routes
CrudUsers == {"u1", "u2"}

\* the recipient, list and delete routes, and POST /api/emails with a
\* scheduledFor (which stores the email and sends nothing)
CrudNext ==
  \/ \E r \in Requests :
       r[3] = "past" /\ PostEmail(r[1], r[2][1], r[2][2], RequestDate(r[3]))
  \/ \E u \in CrudUsers : PostRecipient(u, "e", 1)
  \/ \E u \in CrudUsers : PostRecipientList(u)
  \/ \E u \in CrudUsers : \E p \in IdParams(recipients) : DeleteRecipient(u, p)
  \/ \E u \in CrudUsers : \E p \in IdParams(recipientLists) : DeleteRecipientList(u, p)
  \/ \E u \in CrudUsers : \E p \in IdParams(emails) : DeleteEmail(u, p)

CrudSpec == Init /\ [][CrudNext]_vars

\* the callback requests of the model: a consent that was refused, a request
\* without a session, and requests with a code of a linked user, of a user
\* that is not linked and of the development test user
CallbackRequests ==
  {<<"u2", "error">>, <<Null, "code">>, <<"u1", "code">>, <<"u2", "code">>,
   <<"dev", "code">>}

\* the refresh tokens and the addresses the provider may answer with
ProviderTokens == {"t8", "t9"}
ProviderAddresses == {"m9"}

\* the account linking flow alone
GmailNext ==
  \/ \E r \in CallbackRequests : GmailCallback(r[1], r[2])
  \/ \E k \in DOMAIN callbacks :
       \E outcome \in {"rejected", Null} \cup ProviderTokens : GetToken(k, outcome)
  \/ \E k \in DOMAIN callbacks :
       \E outcome \in {"rejected", Null} \cup ProviderAddresses : GetProfile(k, outcome)
  \/ \E k \in DOMAIN callbacks : UpdateUser(k)

GmailSpec == Init /\ [][GmailNext]_vars

\* the requests of two users whose sends may interleave: u1, linked from the
\* start, to a list of two addresses, and u2, once a callback has linked it,
\* to one address
CredentialRequests ==
  {<<"u1", <<Null, 1>>, "now">>, <<"u2", <<"x", NoList>>, "now">>}

\* the sends of the requests together with the account linking flow of u2,
\* in which the provider answers with the refresh token t8 and the address m9
CredentialNext ==
  \/ \E r \in CredentialRequests :
       PostEmail(r[1], r[2][1], r[2][2], RequestDate(r[3]))
  \/ \E n \in DOMAIN inv : GetUser(n)
  \/ \E n \in DOMAIN inv : GetRecipients(n)
  \/ \E n \in DOMAIN inv : Submit(n)
  \/ \E n \in DOMAIN inv : Activity(n)
  \/ \E n \in DOMAIN inv : Update(n)
  \/ \E n \in DOMAIN inv : Catch(n)
  \/ GmailCallback("u2", "code")
  \/ \E k \in DOMAIN callbacks : GetToken(k, "t8")
  \/ \E k \in DOMAIN callbacks : GetProfile(k, "m9")
  \/ \E k \in DOMAIN callbacks : UpdateUser(k)

CredentialSpec == Init /\ [][CredentialNext]_vars



\* ------------------------------------------------------------------------
\* Properties
\* ------------------------------------------------------------------------

\* the stored document with _id = oid: documents are appended and never
\* removed, so it is the oid-th of the collection
StoredEmail(oid) == emails[oid]

\* the owner of the email is found and has the flag and a refresh token
OwnerLinked(email) ==
  /\ email.userId \in DOMAIN users
  /\ users[email.userId].gmailConnected
  /\ users[email.userId].gmailRefreshToken # Null

\* the addresses of the rows of list l that belong to user u, in list order
ListAddresses(u, l) ==
  LET rows == SelectSeq(recipients, LAMBDA r: r.userId = u /\ r.listId = l)
  IN [k \in DOMAIN rows |-> rows[k].email]

\* the addresses submitted to Mail Transport by invocation v, in order
Submitted(v) == [k \in DOMAIN v.subs |-> v.subs[k].to]

\* the activity rows written for email id and address a
ActivityRows(id, a) ==
  {k \in DOMAIN activities :
     /\ activities[k].emailId = id
     /\ activities[k].recipientEmail = a
     /\ activities[k].type = "sent"}

\* the number of entries of a result list for address a with outcome ok
Entries(results, a, ok) ==
  Cardinality({k \in DOMAIN results :
                 results[k].email = a /\ results[k].success = ok})

\* the loop of invocation v ran over a resolved, non-empty recipient set
LoopFinished(v) ==
  /\ Settled(v)
  /\ v.token # Null
  /\ Len(v.recipientEmails) > 0
  /\ v.i = Len(v.recipientEmails)

C2_Original ==
  \A n \in DOMAIN inv :
    LET v == inv[n] IN
    (Settled(v) /\ v.email.to = Null /\ v.email.listId # NoList) =>
      Submitted(v) = ListAddresses(v.email.userId, v.email.listId)

\* C2 amended: the same for the emails whose owner is found and linked; a
\* failed submission does not keep the later ones from being made
C2_ListSubmissions ==
  \A n \in DOMAIN inv :
    LET v == inv[n] IN
    (Settled(v) /\ v.email.to = Null /\ v.email.listId # NoList
       /\ OwnerLinked(v.email)) =>
      Submitted(v) = ListAddresses(v.email.userId, v.email.listId)

\* C2 witness: a settled list invocation whose first submission failed and
\* whose second was made all the same
C2_Witness ==
  \E n \in DOMAIN inv :
    /\ Settled(inv[n])
    /\ inv[n].email.to = Null
    /\ Len(inv[n].subs) = 2
    /\ ~inv[n].subs[1].ok
    /\ Submitted(inv[n]) = <<"a", "b">>

C3_WitnessAllSent ==
  \E n \in DOMAIN inv :
    /\ inv[n].pc = "returned"
    /\ Aggregate(inv[n]).total = 2
    /\ Aggregate(inv[n]).sent = 2
    /\ Aggregate(inv[n]).failed = 0

\* callback t has called sendEmail for the fetched email with _id oid
Dispatched(t, oid) ==
  \E k \in 1..Len(ticks[t].due) :
    /\ TickInv(t, k) \in DOMAIN inv
    /\ inv[TickInv(t, k)].email.oid = oid

\* C4: an email fetched by a callback is dispatched by it only if its
\* scheduledFor is a valid date at or before the callback's one value of
\* now, and once the callback has ended every such email was dispatched
C4_DueFilter ==
  \A t \in DOMAIN ticks :
    \A j \in DOMAIN ticks[t].fetched :
      LET e == ticks[t].fetched[j]
          due == e.scheduledFor.kind = "date" /\ e.scheduledFor.t <= ticks[t].now
      IN /\ Dispatched(t, e.oid) => due
         /\ (ticks[t].pc = "done" /\ due) => Dispatched(t, e.oid)

\* C4 witness: a callback has ended having dispatched an email scheduled for
\* exactly its now and one for a second earlier, and not one for a second
\* later, nor one without a date, nor one with an invalid date
C4_Witness ==
  \E t \in DOMAIN ticks :
    /\ ticks[t].pc = "done"
    /\ \E j \in DOMAIN ticks[t].fetched :
         /\ ticks[t].fetched[j].scheduledFor = DateAt(ticks[t].now)
         /\ Dispatched(t, ticks[t].fetched[j].oid)
    /\ \E j \in DOMAIN ticks[t].fetched :
         /\ ticks[t].fetched[j].scheduledFor = DateAt(ticks[t].now - 1)
         /\ Dispatched(t, ticks[t].fetched[j].oid)
    /\ \E j \in DOMAIN ticks[t].fetched :
         /\ ticks[t].fetched[j].scheduledFor = DateAt(ticks[t].now + 1)
         /\ ~Dispatched(t, ticks[t].fetched[j].oid)
    /\ \E j \in DOMAIN ticks[t].fetched :
         /\ ticks[t].fetched[j].scheduledFor = NullDate
         /\ ~Dispatched(t, ticks[t].fetched[j].oid)
    /\ \E j \in DOMAIN ticks[t].fetched :
         /\ ticks[t].fetched[j].scheduledFor = InvalidDate
         /\ ~Dispatched(t, ticks[t].fetched[j].oid)

\* C5 as stated: a stored email that is "scheduled" and was created before a
\* callback took its now (no write ever sets "scheduled", so it had that
\* status when the callback fetched) is among the emails that callback
\* fetched, whoever owns it
C5_GlobalScan ==
  \A t \in DOMAIN ticks :
    \A j \in DOMAIN emails :
      (emails[j].status = "scheduled" /\ emails[j].createdAt < ticks[t].now) =>
        \E f \in DOMAIN ticks[t].fetched : ticks[t].fetched[f].oid = emails[j].oid

\* the owner of document d is linked and d names at least one recipient
HasRecipient(d) ==
  \/ d.to # Null
  \/ d.listId # NoList /\ Len(ListAddresses(d.userId, d.listId)) > 0

\* C6 as stated: an email of a linked owner with a recipient, stored with a
\* scheduledFor 60 seconds before its creation, has status "sent" and a
\* sentAt once a callback fired after its creation has ended
C6_ScheduledSentByTick ==
  \A j \in DOMAIN emails :
    LET d == emails[j] IN
    ( /\ OwnerLinked(d)
      /\ HasRecipient(d)
      /\ d.scheduledFor.kind = "date"
      /\ d.scheduledFor.t <= d.createdAt - PeriodSec
      /\ \E t \in DOMAIN ticks : ticks[t].pc = "done" /\ ticks[t].now > d.createdAt )
    => (d.status = "sent" /\ d.sentAt.kind = "date")

C8_Original ==
  \A n \in DOMAIN inv :
    LET v == inv[n] IN
    (Settled(v) /\ v.email.to # Null) =>
      /\ v.recipientEmails = <<v.email.to>>
      /\ Submitted(v) = <<v.email.to>>

\* C8 amended: the same for the emails whose owner is found and linked; the
\* list id, when the email has one too, is not used
C8_DirectAddress ==
  \A n \in DOMAIN inv :
    LET v == inv[n] IN
    (Settled(v) /\ v.email.to # Null /\ OwnerLinked(v.email)) =>
      /\ v.recipientEmails = <<v.email.to>>
      /\ Submitted(v) = <<v.email.to>>

\* C8 witness: an email with a direct address and the id of a list that
\* holds two rows of its owner was submitted once, to the direct address
C8_Witness ==
  \E n \in DOMAIN inv :
    /\ Settled(inv[n])
    /\ inv[n].email.to = "x"
    /\ inv[n].email.listId = 1
    /\ Len(ListAddresses(inv[n].email.userId, 1)) = 2
    /\ Submitted(inv[n]) = <<"x">>

C10_TickIsolation ==
  /\ \A t \in DOMAIN ticks :
       ticks[t].pc = "done" =>
         \A k \in 1..Len(ticks[t].due) :
           /\ TickInv(t, k) \in DOMAIN inv
           /\ Settled(inv[TickInv(t, k)])
           /\ inv[TickInv(t, k)].email = ticks[t].due[k]
  /\ (Len(ticks) < MaxSchedulerTicks /\ clock = PeriodSec * (Len(ticks) + 1))
       => ENABLED TickFire(MaxSchedulerTicks)

\* C10 witness: the first callback's first sendEmail threw, its second due
\* email was dispatched all the same, and the second callback has fired
C10_Witness ==
  /\ Len(ticks) = 2
  /\ ticks[1].pc = "done"
  /\ Len(ticks[1].due) >= 2
  /\ inv[TickInv(1, 1)].pc = "threw"
  /\ TickInv(1, 2) \in DOMAIN inv

\* the emails callback t fetched whose scheduledFor is a valid date at or
\* before its now
DueOf(t) ==
  SelectSeq(ticks[t].fetched,
            LAMBDA e: e.scheduledFor.kind = "date" /\ e.scheduledFor.t <= ticks[t].now)

\* C11: a stored scheduled email whose scheduledFor is not a valid date is
\* dispatched by no callback, has no sendEmail invocation (so no message is
\* submitted for it) and keeps status "scheduled"; and a callback that
\* fetched such an email and has ended has dispatched every email it
\* fetched whose date is valid and not after its now
C11_UnparseableNeverDispatched ==
  /\ \A j \in DOMAIN emails :
       emails[j].scheduledFor.kind = "invalid" =>
         /\ \A t \in DOMAIN ticks : ~Dispatched(t, emails[j].oid)
         /\ \A n \in DOMAIN inv : inv[n].email.oid # emails[j].oid
         /\ emails[j].status = "scheduled"
  /\ \A t \in DOMAIN ticks :
       ( /\ ticks[t].pc = "done"
         /\ \E f \in DOMAIN ticks[t].fetched :
              ticks[t].fetched[f].scheduledFor.kind = "invalid" )
       => /\ ticks[t].due = DueOf(t)
          /\ \A k \in DOMAIN ticks[t].due : Dispatched(t, ticks[t].due[k].oid)

\* C11 witness: two callbacks have ended, each fetched the email with the
\* unparseable date ahead of two due ones and dispatched only those, and
\* the email is still "scheduled"
C11_Witness ==
  /\ Len(ticks) >= 2
  /\ \A t \in 1..2 :
       /\ ticks[t].pc = "done"
       /\ ticks[t].fetched[1].scheduledFor = InvalidDate
       /\ Len(ticks[t].due) >= 2
       /\ ~Dispatched(t, ticks[t].fetched[1].oid)
       /\ Dispatched(t, ticks[t].due[2].oid)
  /\ emails[1].scheduledFor = InvalidDate
  /\ emails[1].status = "scheduled"

\* invocations a and b were started for the same stored email, a by an
\* earlier callback than b
SameEmailLaterTick(a, b) ==
  /\ a[1] = "tick"
  /\ b[1] = "tick"
  /\ a[2] < b[2]
  /\ inv[a].email.oid = inv[b].email.oid

\* no sendEmail invocation started by a callback has handed a message to
\* Mail Transport
NoTickSubmission ==
  \A n \in DOMAIN inv : n[1] = "tick" => inv[n].subs = <<>>

Fetched(t, oid) ==
  \E f \in DOMAIN ticks[t].fetched : ticks[t].fetched[f].oid = oid

\* C14: from a state in which the stored status of an email is "failed", no
\* step changes that status, no callback that starts fetches or dispatches
\* the email, no sendEmail invocation is started for it, and no invocation
\* for it submits a further message
C14_FailedNotRetried ==
  [][ \A j \in DOMAIN emails :
        emails[j].status = "failed" =>
          /\ emails'[j].status = "failed"
          /\ \A t \in DOMAIN ticks' :
               t \notin DOMAIN ticks => ~Fetched(t, emails[j].oid)'
          /\ \A n \in DOMAIN inv' :
               inv'[n].email.oid = emails[j].oid =>
                 /\ n \in DOMAIN inv
                 /\ inv'[n].subs = inv[n].subs ]_vars

\* C14 witness: a callback has ended with two emails stored as "failed", one
\* of a request whose sendEmail threw and one of the scheduler's user id
\* whose date has passed, and it fetched neither
C14_Witness ==
  \E t \in DOMAIN ticks : \E n \in DOMAIN inv : \E j \in DOMAIN emails :
    /\ ticks[t].pc = "done"
    /\ n[1] = "request"
    /\ inv[n].pc = "threw"
    /\ StoredEmail(inv[n].email.oid).status = "failed"
    /\ ~Fetched(t, inv[n].email.oid)
    /\ emails[j].userId = SchedulerUserId
    /\ emails[j].status = "failed"
    /\ emails[j].scheduledFor.kind = "date"
    /\ emails[j].scheduledFor.t <= ticks[t].now
    /\ ~Fetched(t, emails[j].oid)

\* C15: in every reachable state, every stored email whose status is "sent"
\* has a sentAt that is a date
C15_SentHasSentAt ==
  \A j \in DOMAIN emails :
    emails[j].status = "sent" => emails[j].sentAt.kind = "date"

\* C15 witness: an email is stored as "sent" with a sentAt, in a state in
\* which a callback has fired too
C15_Witness ==
  \E j \in DOMAIN emails :
    /\ emails[j].status = "sent"
    /\ emails[j].sentAt.kind = "date"
    /\ Len(ticks) >= 1

CollOf(entity) ==
  CASE entity = "recipient" -> recipients
    [] entity = "list" -> recipientLists
    [] OTHER -> emails

\* the ids create has returned for the entities of a kind that are stored:
\* the id of the 201 response of the create route, or of createEmail for an
\* email a request created
CreatedIds(entity) ==
  CASE entity = "recipient" ->
         {replies[k].id : k \in {m \in DOMAIN replies :
                                   replies[m].route = "POST /api/recipients"}}
    [] entity = "list" ->
         {replies[k].id : k \in {m \in DOMAIN replies :
                                   replies[m].route = "POST /api/recipient-lists"}}
    [] OTHER ->
         {AsCreated(emails[k]).id : k \in {m \in DOMAIN emails :
                                             emails[m].createdAt >= 0}}

\* C17 as stated: for an entity that create returned with id X and that is
\* stored, get-by-id(X) returns that entity, delete-by-id(X) returns true
\* and removes it, and get-by-id(X) on the collection after the delete
\* returns nothing
C17_CrudConsistent ==
  \A entity \in {"recipient", "list", "email"} :
    \A X \in CreatedIds(entity) :
      LET coll == CollOf(entity) IN
      (\E k \in DOMAIN coll : coll[k].oid = X) =>
        /\ FindOne(coll, X).oid = X
        /\ Deleted(coll, X)
        /\ \A k \in DOMAIN DeleteOne(coll, X) : DeleteOne(coll, X)[k].oid # X
        /\ FindOne(DeleteOne(coll, X), X) = NoDoc

\* the kind of entity a delete route is for
DeleteRoutes ==
  [recipient |-> "DELETE /api/recipients/:id",
   list |-> "DELETE /api/recipient-lists/:id",
   email |-> "DELETE /api/emails/:id"]

\* the owner of the document of coll whose _id is oid, Null when there is none
OwnerOf(coll, oid) ==
  IF \E k \in DOMAIN coll : coll[k].oid = oid
    THEN (CHOOSE d \in {coll[k] : k \in DOMAIN coll} : d.oid = oid).userId
    ELSE Null

\* C18 as stated: a delete request that names the id of an entity is
\* answered with 403, every collection unchanged, when the entity belongs to
\* another user; with 404, every collection unchanged, when there is no such
\* entity; and with 200, the entity and nothing else removed, when it
\* belongs to the user
C18_DeleteFrame ==
  [][ \A entity \in {"recipient", "list", "email"} :
      \A n \in 1..NewOid(CollOf(entity)) :
        LET r == replies'[Len(replies')]
            owner == OwnerOf(CollOf(entity), n)
            unchanged == /\ recipients' = recipients
                         /\ recipientLists' = recipientLists
                         /\ emails' = emails
        IN ( /\ Len(replies') > Len(replies)
             /\ r.route = DeleteRoutes[entity]
             /\ r.param = [kind |-> "hex", n |-> n] )
           => /\ (owner = Null) => (r.status = 404 /\ unchanged)
              /\ (owner # Null /\ owner # r.user) => (r.status = 403 /\ unchanged)
              /\ (owner = r.user) =>
                   /\ r.status = 200
                   /\ OwnerOf(CollOf(entity), n)' = Null ]_vars

\* C19: a callback request whose exchange returned no refresh token or no
\* address ends in a failure redirect, and no step that ends a request in a
\* failure changes a user document; a step that changes a user document is
\* the write of a request that holds a refresh token and an address, both
\* not null, and stores exactly these with the flag set: the flag of no
\* user becomes true in any other way
C19_CallbackFailuresLeaveUser ==
  [][ /\ \A k \in DOMAIN callbacks :
           ( /\ callbacks[k].pc # "done"
             /\ callbacks'[k].pc = "done"
             /\ callbacks'[k].redirect # "gmailConnected=success" )
           => users' = users
      /\ \A k \in DOMAIN callbacks' :
           ( /\ callbacks'[k].pc \in {"updateOne", "done"}
             /\ callbacks'[k].redirect \in {Null, "gmailConnected=success"} )
           => (callbacks'[k].refreshToken # Null /\ callbacks'[k].email # Null)
      /\ \A u \in DOMAIN users :
           users'[u] # users[u] =>
             \E k \in DOMAIN callbacks :
               /\ callbacks[k].pc = "updateOne"
               /\ callbacks[k].user = u
               /\ callbacks[k].refreshToken # Null
               /\ callbacks[k].email # Null
               /\ users'[u] = Linked(users[u], callbacks[k].refreshToken,
                                     callbacks[k].email) ]_vars

\* C19 witness: one request for u2 failed because the provider returned no
\* refresh token, another because the address could not be read, and u2's
\* document is as it was at start, not linked
C19_Witness ==
  /\ Len(callbacks) = 2
  /\ \A k \in 1..2 :
       /\ callbacks[k].user = "u2"
       /\ callbacks[k].pc = "done"
       /\ callbacks[k].redirect = "gmailError=db_update_failed"
  /\ callbacks[1].refreshToken = Null
  /\ callbacks[2].refreshToken # Null
  /\ callbacks[2].email = Null
  /\ users["u2"] = InitUsers["u2"]
  /\ ~users["u2"].gmailConnected

\* C19 witness, linking: a request for u2 ended in success and u2's document
\* has the flag, the refresh token and the address of that request
C19_WitnessLinked ==
  \E k \in DOMAIN callbacks :
    /\ callbacks[k].user = "u2"
    /\ callbacks[k].redirect = "gmailConnected=success"
    /\ users["u2"].gmailConnected
    /\ users["u2"].gmailRefreshToken = callbacks[k].refreshToken
    /\ users["u2"].gmailEmail = "m9"

\* C20 as stated: a settled sendEmail invocation whose email is stored as
\* "failed" (the invocation is the only writer of its email's status) has
\* handed no message to Mail Transport
C20_FailedOnlyBeforeResolution ==
  \A n \in DOMAIN inv :
    (Settled(inv[n]) /\ StoredEmail(inv[n].email.oid).status = "failed") =>
      inv[n].subs = <<>>

\* the sendEmail invocations the request handler made for the stored email oid
RequestInvsFor(oid) ==
  {n \in DOMAIN inv : n[1] = "request" /\ inv[n].email.oid = oid}

\* the stored emails that POST /api/emails created in this run
HandlerRows == {j \in DOMAIN emails : emails[j].createdAt >= 0}

\* what C21 says of a row whose request carried a scheduledFor: it is stored
\* as "scheduled" and the handler made no sendEmail call for it
ScheduledPath(j) ==
  /\ emails[j].status = "scheduled"
  /\ RequestInvsFor(emails[j].oid) = {}

\* what C21 says of a row whose request carried none, up to the outcome of a
\* throwing send: the handler called sendEmail once, with the row stored as
\* "draft", and the row is never stored as "scheduled"
ImmediatePath(j) ==
  /\ Cardinality(RequestInvsFor(emails[j].oid)) = 1
  /\ emails[j].status # "scheduled"
  /\ \A n \in RequestInvsFor(emails[j].oid) :
       /\ inv[n].pc = "getUser" => emails[j].status = "draft"
       /\ inv[n].pc = "threw" => Response(inv[n]) = 500
       /\ inv[n].pc = "returned" => Response(inv[n]) = 200

\* C21 as stated: every request stores one row and takes one of the two
\* paths, and a row whose send threw is stored as "failed"
C21_PostPaths ==
  /\ Len(emails) = MaxSeed + posts
  /\ \A j \in HandlerRows :
       IF emails[j].scheduledFor # NullDate
         THEN ScheduledPath(j)
         ELSE /\ ImmediatePath(j)
              /\ \A n \in RequestInvsFor(emails[j].oid) :
                   inv[n].pc = "threw" => emails[j].status = "failed"

\* C21 amended: every request stores one row and takes one of the two paths:
\* with a scheduledFor the row is stored as "scheduled" and the handler calls
\* no sendEmail; without one the row is stored as "draft" and the handler
\* calls sendEmail once; when that send throws the request answers 500 and
\* the row is stored as "failed", unless the store rejected the write of
\* "failed" itself, and then the row keeps the status "draft"
C21_PostPathsStoreFaults ==
  /\ Len(emails) = MaxSeed + posts
  /\ \A j \in HandlerRows :
       IF emails[j].scheduledFor # NullDate
         THEN ScheduledPath(j)
         ELSE /\ ImmediatePath(j)
              /\ \A n \in RequestInvsFor(emails[j].oid) :
                   inv[n].pc = "threw" =>
                     \/ emails[j].status = "failed"
                     \/ /\ inv[n].error = "StoreError"
                        /\ emails[j].status = "draft"

\* C21 witness: the send of a request without a scheduledFor threw for a
\* reason other than the store, the request is answered 500 and the row is
\* stored as "failed"
C21_Witness ==
  \E j \in HandlerRows : \E n \in RequestInvsFor(emails[j].oid) :
    /\ emails[j].scheduledFor = NullDate
    /\ inv[n].pc = "threw"
    /\ inv[n].error # "StoreError"
    /\ Response(inv[n]) = 500
    /\ emails[j].status = "failed"

\* C21, the other path: a request with a scheduledFor stored its row as
\* "scheduled" and no sendEmail invocation exists
C21_WitnessScheduled ==
  \E j \in HandlerRows :
    /\ emails[j].scheduledFor # NullDate
    /\ emails[j].status = "scheduled"
    /\ inv = <<>>

\* C24 as stated: the aggregate a sendEmail invocation returned has one
\* entry of its detail list per resolved recipient, in the order of the
\* recipients, and its counts add up to the number of recipients
C24_AggregateShape ==
  \A n \in DOMAIN inv :
    inv[n].pc = "returned" =>
      LET agg == Aggregate(inv[n]) IN
        /\ Len(agg.results) = Len(inv[n].recipientEmails)
        /\ \A k \in DOMAIN agg.results :
             agg.results[k].email = inv[n].recipientEmails[k]
        /\ agg.sent + agg.failed = agg.total

\* the number of email_activities rows whose emailId is id
RowsFor(id) ==
  Cardinality({k \in DOMAIN activities : activities[k].emailId = id})

\* the number of Mail Transport submissions that were accepted, over all
\* sendEmail invocations for the stored email oid
SuccessfulSubmissions(oid) ==
  Cardinality(UNION {{<<n, k>> : k \in {m \in DOMAIN inv[n].subs : inv[n].subs[m].ok}} :
                       n \in {m \in DOMAIN inv : inv[m].email.oid = oid}})

\* C22: every step leaves each email_activities row as it was and in its
\* place (so the number of rows never decreases), a DELETE /api/emails/:id
\* request included, and after every step the number of rows of each stored
\* email is at most the number of accepted submissions made for it
C22_ActivityAppendOnly ==
  [][ /\ Len(activities') >= Len(activities)
      /\ \A k \in DOMAIN activities : activities'[k] = activities[k]
      /\ \A j \in DOMAIN emails' :
           (RowsFor(emails[j].oid) <= SuccessfulSubmissions(emails[j].oid))' ]_vars

\* C22 witness: two rows were written for an email of two accepted
\* submissions, a DELETE /api/emails/:id request for that email has been
\* answered, and both rows are in the collection
C22_Witness ==
  \E n \in DOMAIN inv : \E r \in DOMAIN replies :
    /\ inv[n].pc = "returned"
    /\ SuccessfulSubmissions(inv[n].email.oid) = 2
    /\ RowsFor(inv[n].email.oid) = 2
    /\ replies[r].route = "DELETE /api/emails/:id"
    /\ replies[r].param = [kind |-> "hex", n |-> inv[n].email.oid]

\* the refresh tokens user u has been given: the one its document held at
\* start and those the provider returned to a callback of its session
OwnerCredentials(u) ==
  (IF u \in DOMAIN InitUsers THEN {InitUsers[u].gmailRefreshToken} ELSE {})
    \cup {callbacks[k].refreshToken :
            k \in {m \in DOMAIN callbacks : callbacks[m].user = u}}

C23_OthersNotStalled ==
  \A n \in DOMAIN inv :
    inv[n].pc = "send" =>
      /\ (Len(ticks) < MaxTicks /\ clock = PeriodSec * (Len(ticks) + 1))
           => ENABLED TickFire(MaxTicks)
      /\ \A m \in DOMAIN inv :
           (m # n /\ ~Settled(inv[m])) =>
             ENABLED (\/ GetUser(m) \/ GetRecipients(m) \/ Submit(m)
                      \/ Activity(m) \/ Update(m) \/ Catch(m))

\* C23, a state of that half: a callback has fired and its invocation has a
\* step to take while the invocation of a request waits for Mail Transport
C23_WitnessWaiting ==
  \E n \in DOMAIN inv : \E m \in DOMAIN inv :
    /\ n[1] = "request"
    /\ inv[n].pc = "send"
    /\ m[1] = "tick"
    /\ ~Settled(inv[m])
    /\ ticks[m[2]].now > inv[n].start

====
